---- MODULE Spec2Model ----
(***************************************************************************)
(* Threaded update tracker (speedforce-updates).                           *)
(*                                                                         *)
(* The repository holds four variants of one React application:           *)
(*   "rich"   src/unnamed/part_000 lines 1-664   (localStorage, category / *)
(*            description / status, author fallback to the parent)        *)
(*   "mid"    src/App.jsx                         (localStorage, title /   *)
(*            status)                                                      *)
(*   "simple" src/unnamed/part_000 lines 665-928 (localStorage, title)     *)
(*   "supa"   src/src/App.jsx                     (Supabase backend)       *)
(* The variant is fixed when the application starts; every operation is    *)
(* translated per variant from that variant's source.                      *)
(*                                                                         *)
(* Representation.  Timestamps and Date.now() ids are integers (clock      *)
(* readings), 0 stands for null.  A content string is a sequence of        *)
(* characters so that trim() is computed.  A variant's `title` is held in  *)
(* the `description` field; a field a variant does not have holds NoField. *)
(***************************************************************************)
EXTENDS Integers, Sequences, FiniteSets, TLC

\* ------------------------------------------------------------------ bounds
\* Largest reading of the client clock (Date.now()).
MaxTime == 2
\* Spec: addEntry is not called once the forest holds this many entries.
MaxEntries == 2
\* Spec: updateEntry is not called after this many calls of it.
MaxEdits == 1
\* SpecAdd (addEntry alone): the forest's size at which addEntry is no longer called.
MaxAdds == 3
\* SpecForm (the composition form): the same, for the runs that fill in the form.
MaxFormEntries == 1
\* Supabase variant: requests that may be awaiting the backend at one time.
MaxInFlight == 1
\* SpecView (the summary views): largest createdAt / editedAt of the forests viewed.
MaxStamp == 3
\* SpecUsers (registration): no user is added once the list holds this many.
MaxUsers == 3
\* SpecUsers: handleLogin calls that may be awaiting the backend at one time.
MaxLogins == 2
\* SpecReply (the reply box): the forest's size at which nothing more is added.
MaxReplyEntries == 2
\* SpecRace (overlapping calls): requests that may be awaiting the backend at one time.
MaxRacing == 2
\* SpecCompose (the Save button): the forest's size at which nothing more is saved.
MaxComposed == 1
\* SpecPaste (the clipboard): the longest plain text pasted, in characters.
MaxText == 4
\* SpecView: a timestamp is written with IsoWidth digits of base IsoBase.
IsoBase == 3
IsoWidth == 2
\* SpecDraft (a reply saved over a draft in the main form): the entries created.
MaxDrafted == 2
\* SpecEscape: the longest string escaped, in characters.
MaxEscaped == 5

\* ------------------------------------------------------------ value domains
LocalVariants == {"rich", "mid", "simple"}
Variants == LocalVariants \cup {"supa"}

NullStr == "null"
NoField == "-"
Untitled == "(untitled)"

\* the option lists of the category and status selects (two of each four)
Categories == {"RFQ", "PO"}
Statuses == {"New", "Complete"}
DefaultCategory == "RFQ"
DefaultStatus == "New"
Descriptions == {"", "d"}
\* the classifications addEntry is given: the form's defaults, and one that
\* differs from them in every field
Classes == {[category |-> "RFQ", description |-> "", status |-> "New"],
            [category |-> "PO", description |-> "d", status |-> "Complete"]}

\* content strings: empty, blank, and two with text (one with a leading blank)
Contents == {<<>>, <<" ">>, <<" ", "a">>}
EditContents == {<<"b">>}

UserList == <<[name |-> "Ann", initials |-> "A"]>>

VARIABLES
    variant,       \* which of the four applications is running
    now,           \* the client clock
    entries,       \* useState([]) entries: the forest, a sequence of roots
    users,         \* useState([]) users
    selectedUser,  \* useState('') selectedUser: the caller identity
    category,      \* composition form: category
    description,   \* composition form: description (title)
    status,        \* composition form: status
    html,          \* composition form: content
    replyHtml,     \* the reply box of an entry: the reply being typed
    edits,         \* how many times updateEntry was called
    rows,          \* Supabase variant: the backend's entries table, in created_at order
    calls,         \* Supabase variant: the addEntry / updateEntry calls awaiting the backend
    shownUsers,    \* users as of the last render: what the handlers' closures hold
    userRows,      \* Supabase variant: the backend's users table
    storage,       \* localStorage variants: the item stored under STORAGE_KEY
    mount,         \* the effects of the mount still to run, and the updates they queued
    last           \* the call made by the latest step, with what it was given

form == <<category, description, status, html>>
backend == <<rows, calls>>
registry == <<shownUsers, userRows>>
persisted == <<storage, mount>>
vars == <<variant, now, entries, users, selectedUser, form, replyHtml, edits, backend, registry, persisted,
          last>>

\* -------------------------------------------------------------- pure helpers

IsSpace(c) == c = " "

\* String.prototype.trim
RECURSIVE TrimLeft(_)
TrimLeft(s) == IF s # <<>> /\ IsSpace(Head(s)) THEN TrimLeft(Tail(s)) ELSE s

RECURSIVE TrimRight(_)
TrimRight(s) ==
    IF s # <<>> /\ IsSpace(s[Len(s)]) THEN TrimRight(SubSeq(s, 1, Len(s) - 1)) ELSE s

Trim(s) == TrimRight(TrimLeft(s))

\* every entry of a forest, pre-order (an entry placed twice is listed twice)
RECURSIVE Nodes(_)
Nodes(list) ==
    IF list = <<>> THEN <<>>
    ELSE <<Head(list)>> \o Nodes(Head(list).children) \o Nodes(Tail(list))

Size(list) == Len(Nodes(list))

NodeSet(list) == {Nodes(list)[i] : i \in 1..Size(list)}

\* findById: depth-first, pre-order; <<>> stands for null, <<e>> for the entry
RECURSIVE findById(_, _)
findById(list, id) ==
    IF list = <<>> THEN <<>>
    ELSE LET item == Head(list) IN
         IF item.id = id THEN <<item>>
         ELSE LET found == findById(item.children, id) IN
              IF found # <<>> THEN found ELSE findById(Tail(list), id)

\* ------------------------------------------------------------------ addEntry

\* the author addEntry settles on before it validates
resolveInitials(v, su, list, parentId) ==
    IF v = "rich" /\ su = "" /\ parentId # 0
    THEN LET parentEntry == findById(list, parentId) IN
         IF parentEntry # <<>> THEN parentEntry[1].initials ELSE su
    ELSE su

\* mutant of rejected: the content is tested without trim()
rejectedNoTrim(initials, entryHtml) == initials = "" \/ entryHtml = <<>>

\* the early return of addEntry: no author, or content blank after trim()
rejected(initials, entryHtml) == initials = "" \/ Trim(entryHtml) = <<>>

\* the object literal newEntry
newEntry(v, t, parentId, initials, entryCategory, entryDescription, entryHtml, entryStatus) ==
    [id          |-> t,
     parentId    |-> parentId,
     initials    |-> initials,
     category    |-> IF v = "rich" THEN entryCategory ELSE NoField,
     description |-> IF v = "rich" THEN entryDescription
                     ELSE IF entryDescription = "" THEN Untitled ELSE entryDescription,
     html        |-> entryHtml,
     status      |-> IF v = "simple" THEN NoField ELSE entryStatus,
     createdAt   |-> t,
     editedAt    |-> 0,
     editedBy    |-> NullStr,
     children    |-> <<>>]

\* addToParent: list.map over every level; a matching item is not descended into
RECURSIVE addToParent(_, _, _)
addToParent(list, parentId, e) ==
    [i \in 1..Len(list) |->
        IF list[i].id = parentId
        THEN [list[i] EXCEPT !.children = Append(@, e)]
        ELSE [list[i] EXCEPT !.children = addToParent(@, parentId, e)]]

\* the updater handed to setEntries by addEntry
insertEntry(prev, parentId, e) ==
    IF parentId = 0 THEN Append(prev, e) ELSE addToParent(prev, parentId, e)

\* -------------------------------------------------- Supabase variant: addEntry

\* buildThreadHierarchy, the entries under pid: a row whose parent_id is null is a
\* root, a row whose parent is among the rows is pushed to that parent's children,
\* in the order of the rows; a row whose parent is not among the rows is in no list
RECURSIVE childrenOf(_, _)
childrenOf(list, pid) ==
    LET idx == {i \in 1..Len(list) : list[i].parentId = pid}
        ith[k \in 0..Cardinality(idx)] ==
            IF k = 0 THEN <<>>
            ELSE LET i == CHOOSE j \in idx :
                            Cardinality({m \in idx : m <= j}) = k
                 IN Append(ith[k - 1],
                           [id |-> list[i].id, parentId |-> list[i].parentId,
                            initials |-> list[i].initials,
                            category |-> list[i].category,
                            description |-> list[i].description,
                            html |-> list[i].html, status |-> list[i].status,
                            createdAt |-> list[i].createdAt,
                            editedAt |-> list[i].editedAt,
                            editedBy |-> list[i].editedBy,
                            children |-> childrenOf(list, list[i].id)])
    IN ith[Cardinality(idx)]

buildThreadHierarchy(list) == childrenOf(list, 0)

\* the reload's enrichment: initials: userLookup[row.user_id]?.initials || ''
enriched(list, userList) ==
    [i \in 1..Len(list) |->
        [list[i] EXCEPT !.initials =
            IF \E k \in 1..Len(userList) : userList[k].initials = list[i].initials
            THEN @ ELSE ""]]

\* the id the backend gives a new row: one that no row has and that no row, nor the
\* request, refers to
freshId(list, parentId) ==
    LET taken == {list[i].id : i \in 1..Len(list)}
                     \cup {list[i].parentId : i \in 1..Len(list)} \cup {parentId}
    IN CHOOSE n \in 1..(2 * Len(list) + 2) :
           n \notin taken /\ \A m \in 1..(n - 1) : m \in taken

\* the row addEntry sends: a reply to an entry of the forest gets that entry's
\* category, description and status, any other entry the form's (and the status
\* given, if one is given)
insertRequest(list, parentId, su, entryHtml, entryStatus, cat, desc, stat) ==
    LET parent == findById(list, parentId)
        inherit == parentId # 0 /\ parent # <<>>
    IN [parentId    |-> parentId,
        initials    |-> su,
        category    |-> IF inherit THEN parent[1].category ELSE cat,
        description |-> IF inherit THEN parent[1].description ELSE desc,
        status      |-> IF inherit THEN parent[1].status
                        ELSE IF entryStatus # "" THEN entryStatus ELSE stat,
        html        |-> entryHtml]

\* the row the backend stores for a request: id and created_at are the backend's
insertedRow(list, req, t) ==
    [id |-> freshId(list, req.parentId), parentId |-> req.parentId, initials |-> req.initials,
     category |-> req.category, description |-> req.description, html |-> req.html,
     status |-> req.status, createdAt |-> t, editedAt |-> 0, editedBy |-> NoField]

\* ---------------------------------------------------------------- updateEntry

\* mutant of stamped: html and status are both assigned, given or not
stampedBothFields(v, item, fields, t, su) ==
    [item EXCEPT
        !.html        = fields.html,
        !.status      = fields.status,
        !.description = IF "title" \in fields.keys THEN fields.title ELSE @,
        !.editedAt    = t,
        !.editedBy    = IF v \in {"simple", "supa"} THEN @ ELSE su]

\* mutant of stamped: the editor is also written over the author
stampedAuthor(v, item, fields, t, su) ==
    [item EXCEPT
        !.html        = IF "html" \in fields.keys THEN fields.html ELSE @,
        !.status      = IF "status" \in fields.keys THEN fields.status ELSE @,
        !.description = IF "title" \in fields.keys THEN fields.title ELSE @,
        !.initials    = su,
        !.editedAt    = t,
        !.editedBy    = IF v \in {"simple", "supa"} THEN @ ELSE su]

\* { ...item, ...fields, editedAt, editedBy }: fields is [keys, html, status, title]
stamped(v, item, fields, t, su) ==
    [item EXCEPT
        !.html        = IF "html" \in fields.keys THEN fields.html ELSE @,
        !.status      = IF "status" \in fields.keys THEN fields.status ELSE @,
        !.description = IF "title" \in fields.keys THEN fields.title ELSE @,
        !.editedAt    = t,
        !.editedBy    = IF v \in {"simple", "supa"} THEN @ ELSE su]

\* .update(updates).eq('id', id): every row with that id gets the updates
updateRows(list, id, fields, t) ==
    [i \in 1..Len(list) |->
        IF list[i].id = id THEN stamped("supa", list[i], fields, t, "") ELSE list[i]]

\* mutant of update: the id test is missing, every root is stamped
updateNoIdTest(v, list, id, fields, t, su) ==
    [i \in 1..Len(list) |-> [list[i] EXCEPT !.editedAt = t]]

\* update: list.map over every level; a matching item is not descended into
RECURSIVE update(_, _, _, _, _, _)
update(v, list, id, fields, t, su) ==
    [i \in 1..Len(list) |->
        IF list[i].id = id
        THEN stamped(v, list[i], fields, t, su)
        ELSE [list[i] EXCEPT !.children = update(v, @, id, fields, t, su)]]

\* the field sets updateEntry is given: one key of the variant's edit form, or all
\* of them (what the edit-save handler passes); a key not given holds a fixed value
FormKeys(v) ==
    CASE v = "rich"   -> {"html", "status"}
      [] v = "mid"    -> {"title", "html", "status"}
      [] v = "simple" -> {"title", "html"}
      [] v = "supa"   -> {"html", "status"}

FieldSets(v) ==
    {f \in [keys : {{k} : k \in FormKeys(v)} \cup {FormKeys(v)},
            html : EditContents \cup {<<>>}, status : {"Complete", NoField},
            title : {"t", NoField}] :
        /\ ("html" \in f.keys) = (f.html # <<>>)
        /\ ("status" \in f.keys) = (f.status # NoField)
        /\ ("title" \in f.keys) = (f.title # NoField)}

\* ----------------------------------------------------------------- the calls

\* last: op is the function called; id its parentId / id argument; blank: the content
\* given is empty after trim(); found: the id given names an entry of the forest;
\* stored: the call went past its validation to setEntries; keys: the fields given to
\* updateEntry; signal: what the call reports to its caller (a return value or a throw)
\* the item under STORAGE_KEY: none (getItem gives null, read as '{}'), or the
\* JSON of { entries, users }, which parses back to the two lists
NoItem == [item |-> FALSE, entries |-> <<>>, users |-> <<>>]

\* the persist effect's localStorage.setItem(STORAGE_KEY, JSON.stringify({ entries,
\* users })); the Supabase application stores nothing
saved(v, list, userList) ==
    IF v \in LocalVariants THEN [item |-> TRUE, entries |-> list, users |-> userList]
    ELSE NoItem

\* the component is mounted: no effect of the mount is left to run
Mounted == [effects |-> <<>>, queued |-> <<>>, before |-> NoItem]

NoCall == [op |-> "none", id |-> 0, blank |-> FALSE, found |-> FALSE, stored |-> FALSE,
           keys |-> {}, signal |-> "none"]

Init ==
    /\ variant \in Variants
    /\ now = 1
    /\ entries = <<>>
    /\ users = UserList
    /\ selectedUser = ""
    /\ category = DefaultCategory
    /\ description = ""
    /\ status = DefaultStatus
    /\ html = <<>>
    /\ replyHtml = <<>>
    /\ edits = 0
    /\ rows = <<>>
    /\ calls = <<>>
    /\ shownUsers = users
    /\ userRows = users
    /\ storage = saved(variant, entries, users)
    /\ mount = Mounted
    /\ last = NoCall

\* the three applications that keep the forest in localStorage
InitLocal == Init /\ variant \in LocalVariants

\* the clock advances
Tick ==
    /\ now < MaxTime
    /\ now' = now + 1
    /\ last' = NoCall
    /\ UNCHANGED <<variant, entries, users, selectedUser, form, edits, backend, registry, replyHtml, persisted>>

\* <select value={selectedUser} onChange=...>: '' or one of the users' initials
SelectUser(u) ==
    /\ u = "" \/ \E i \in 1..Len(users) : users[i].initials = u
    /\ selectedUser' = u
    /\ last' = NoCall
    /\ UNCHANGED <<variant, now, entries, users, form, edits, backend, registry, replyHtml, persisted>>

\* the composition form's inputs
SetCategory(c) ==
    /\ variant \in {"rich", "supa"}
    /\ category' = c
    /\ last' = NoCall
    /\ UNCHANGED <<variant, now, entries, users, selectedUser, description, status, html, edits, backend, registry, replyHtml, persisted>>

SetDescription(d) ==
    /\ description' = d
    /\ last' = NoCall
    /\ UNCHANGED <<variant, now, entries, users, selectedUser, category, status, html, edits, backend, registry, replyHtml, persisted>>

SetStatus(s) ==
    /\ variant # "simple"
    /\ status' = s
    /\ last' = NoCall
    /\ UNCHANGED <<variant, now, entries, users, selectedUser, category, description, html, edits, backend, registry, replyHtml, persisted>>

SetHtml(h) ==
    /\ html' = h
    /\ last' = NoCall
    /\ UNCHANGED <<variant, now, entries, users, selectedUser, category, description, status, edits, backend, registry, replyHtml, persisted>>

\* the body of addEntry(parentId, entryHtml, entryCategory, entryDescription,
\* entryStatus)
addEntry(parentId, entryHtml, entryCategory, entryDescription, entryStatus) ==
    /\ variant \in LocalVariants
    /\ LET initials == resolveInitials(variant, selectedUser, entries, parentId)
           e == newEntry(variant, now, parentId, initials, entryCategory,
                         entryDescription, entryHtml, entryStatus)
       IN /\ last' = [op |-> "addEntry", id |-> parentId,
                      blank |-> (Trim(entryHtml) = <<>>),
                      found |-> (parentId # 0 /\ findById(entries, parentId) # <<>>),
                      stored |-> ~rejected(initials, entryHtml),
                      keys |-> {}, signal |-> "none"]
          /\ IF rejected(initials, entryHtml)
             THEN UNCHANGED <<entries, form, storage>>
             ELSE /\ entries' = insertEntry(entries, parentId, e)
                  /\ storage' = saved(variant, entries', users)
                  /\ html' = <<>>
                  /\ description' = ""
                  /\ category' = IF variant = "rich" THEN DefaultCategory ELSE category
                  /\ status' = IF variant = "simple" THEN status ELSE DefaultStatus
    /\ UNCHANGED <<variant, now, users, selectedUser, edits, backend, registry, mount>>

\* addEntry called on its own (the Save button, or any other caller)
AddEntry(parentId, entryHtml, entryCategory, entryDescription, entryStatus) ==
    /\ addEntry(parentId, entryHtml, entryCategory, entryDescription, entryStatus)
    /\ UNCHANGED replyHtml

\* the reply box's input
SetReplyHtml(h) ==
    /\ entries # <<>>
    /\ replyHtml' = h
    /\ last' = NoCall
    /\ UNCHANGED <<variant, now, entries, users, selectedUser, form, edits, backend, registry, persisted>>

\* handleReplySave of the Entry with this id: addEntry with the reply typed and the
\* entry's own classification, then the reply box is closed and emptied
HandleReplySave(id) ==
    /\ findById(entries, id) # <<>>
    /\ LET entry == findById(entries, id)[1] IN
           addEntry(entry.id, replyHtml, entry.category, entry.description, entry.status)
    /\ replyHtml' = <<>>

\* updateEntry(id, fields)
UpdateEntry(id, fields) ==
    /\ variant \in LocalVariants
    /\ edits < MaxEdits
    /\ edits' = edits + 1
    /\ entries' = update(variant, entries, id, fields, now, selectedUser)
    /\ storage' = saved(variant, entries', users)
    /\ last' = [op |-> "updateEntry", id |-> id, blank |-> FALSE,
                found |-> (findById(entries, id) # <<>>), stored |-> TRUE,
                keys |-> fields.keys, signal |-> "none"]
    /\ UNCHANGED <<variant, now, users, selectedUser, form, backend, registry, replyHtml, mount>>

\* ---------------------------------------------- the calls, Supabase variant

removeAt(seq, k) == SubSeq(seq, 1, k - 1) \o SubSeq(seq, k + 1, Len(seq))

\* rows stored or about to be stored
Committed == Len(rows) + Cardinality({k \in 1..Len(calls) :
                                        calls[k].kind = "insert" /\ calls[k].phase = "write"})

\* addEntry(parentId, entryHtml, entryStatus) up to its first await; via is the
\* handler that awaits it
addEntryAsync(parentId, entryHtml, entryStatus, via) ==
    /\ variant = "supa"
    /\ last' = [op |-> "addEntryAsync", id |-> parentId,
                blank |-> (Trim(entryHtml) = <<>>),
                found |-> (parentId # 0 /\ findById(entries, parentId) # <<>>),
                stored |-> FALSE, keys |-> {}, signal |-> "none"]
    /\ calls' = IF Trim(entryHtml) = <<>> \/ selectedUser = "" THEN calls
                ELSE Append(calls,
                        [kind |-> "insert", phase |-> "write", id |-> parentId, via |-> via,
                         req |-> insertRequest(entries, parentId, selectedUser, entryHtml,
                                               entryStatus, category, description, status)])
    /\ UNCHANGED <<variant, now, entries, users, selectedUser, form, edits, rows, registry, persisted>>

AddEntryAsync(parentId, entryHtml, entryStatus) ==
    /\ addEntryAsync(parentId, entryHtml, entryStatus, "addEntry")
    /\ UNCHANGED replyHtml

\* saveReply of the EntryComponent with this id: a blank reply is left alone, any
\* other is handed to addEntry; when addEntry is over the reply box is closed
SaveReply(id) ==
    /\ variant = "supa"
    /\ selectedUser # ""
    /\ findById(entries, id) # <<>>
    /\ Trim(replyHtml) # <<>>
    /\ addEntryAsync(id, replyHtml, "", "saveReply")
    /\ UNCHANGED replyHtml

\* the reply box after the call has returned to its handler
afterCall(call, draft) == IF call.via = "saveReply" THEN <<>> ELSE draft

\* mutant of InsertDone: the forest is given the new entry whatever the answer is
InsertDoneOptimistic(k, ok, t) ==
    /\ k \in 1..Len(calls)
    /\ calls[k].kind = "insert" /\ calls[k].phase = "write"
    /\ rows' = IF ok THEN Append(rows, insertedRow(rows, calls[k].req, t)) ELSE rows
    /\ calls' = IF ok THEN [calls EXCEPT ![k].phase = "select"] ELSE removeAt(calls, k)
    /\ entries' = buildThreadHierarchy(
                      enriched(Append(rows, insertedRow(rows, calls[k].req, t)), users))
    /\ last' = [op |-> "insertDone", id |-> calls[k].id, blank |-> FALSE,
                found |-> FALSE, stored |-> ok, keys |-> {}, signal |-> "none"]
    /\ UNCHANGED <<variant, now, users, selectedUser, form, edits, registry, replyHtml, persisted>>

\* the insert is answered: an error is logged and addEntry ends, or the row is stored
\* and addEntry goes on to reload
InsertDone(k, ok, t) ==
    /\ k \in 1..Len(calls)
    /\ calls[k].kind = "insert" /\ calls[k].phase = "write"
    /\ rows # <<>> => t >= rows[Len(rows)].createdAt
    /\ IF ok
       THEN /\ rows' = Append(rows, insertedRow(rows, calls[k].req, t))
            /\ calls' = [calls EXCEPT ![k].phase = "select"]
       ELSE /\ rows' = rows
            /\ calls' = removeAt(calls, k)
    /\ last' = [op |-> "insertDone", id |-> calls[k].id, blank |-> FALSE,
                found |-> (\E i \in 1..Len(rows) : rows[i].id = calls[k].id),
                stored |-> ok, keys |-> {}, signal |-> "none"]
    /\ replyHtml' = IF ok THEN replyHtml ELSE afterCall(calls[k], replyHtml)
    /\ UNCHANGED <<variant, now, entries, users, selectedUser, form, edits, registry, persisted>>

\* updateEntry(id, newHtml, newStatus) up to its first await
UpdateEntryAsync(id, fields) ==
    /\ variant = "supa"
    /\ edits < MaxEdits
    /\ edits' = edits + 1
    /\ calls' = Append(calls, [kind |-> "update", phase |-> "write", id |-> id,
                               via |-> "updateEntry",
                               req |-> [fields |-> fields, updatedAt |-> now]])
    /\ last' = [op |-> "updateEntryAsync", id |-> id, blank |-> FALSE,
                found |-> (findById(entries, id) # <<>>), stored |-> FALSE,
                keys |-> fields.keys, signal |-> "none"]
    /\ UNCHANGED <<variant, now, entries, users, selectedUser, form, rows, registry, replyHtml, persisted>>

\* the update is answered: an error is logged and updateEntry ends, or the rows with
\* the id are updated and updateEntry goes on to reload
UpdateDone(k, ok) ==
    /\ k \in 1..Len(calls)
    /\ calls[k].kind = "update" /\ calls[k].phase = "write"
    /\ IF ok
       THEN /\ rows' = updateRows(rows, calls[k].id, calls[k].req.fields,
                                  calls[k].req.updatedAt)
            /\ calls' = [calls EXCEPT ![k].phase = "select"]
       ELSE /\ rows' = rows
            /\ calls' = removeAt(calls, k)
    /\ last' = [op |-> "updateDone", id |-> calls[k].id, blank |-> FALSE,
                found |-> (\E i \in 1..Len(rows) : rows[i].id = calls[k].id),
                stored |-> ok, keys |-> calls[k].req.fields.keys, signal |-> "none"]
    /\ UNCHANGED <<variant, now, entries, users, selectedUser, form, edits, registry, replyHtml, persisted>>

\* the backend runs the reload's select: its answer, on its way to the page, holds
\* the rows as they are now
SelectRead(k) ==
    /\ k \in 1..Len(calls)
    /\ calls[k].phase = "select"
    /\ calls' = [calls EXCEPT ![k] = [kind |-> @.kind, phase |-> "answer", id |-> @.id,
                                      via |-> @.via, req |-> @.req, data |-> rows]]
    /\ last' = [op |-> "selectRead", id |-> calls[k].id, blank |-> FALSE,
                found |-> FALSE, stored |-> FALSE, keys |-> {}, signal |-> "none"]
    /\ UNCHANGED <<variant, now, entries, users, selectedUser, form, edits, rows, registry,
                   replyHtml, persisted>>

\* the rows the answer of a reload holds: those read when the select ran
entriesData(call) == IF call.phase = "answer" THEN call.data ELSE rows

\* the reload is answered: unless it failed the forest is rebuilt from the rows; a
\* root addEntry then clears the description and the message
SelectDone(k, ok) ==
    /\ k \in 1..Len(calls)
    /\ calls[k].phase \in {"select", "answer"}
    /\ entries' = IF ok THEN buildThreadHierarchy(enriched(entriesData(calls[k]), users))
                  ELSE entries
    /\ IF calls[k].kind = "insert" /\ calls[k].id = 0
       THEN description' = "" /\ html' = <<>>
       ELSE UNCHANGED <<description, html>>
    /\ calls' = removeAt(calls, k)
    /\ last' = [op |-> "selectDone", id |-> calls[k].id, blank |-> FALSE,
                found |-> FALSE, stored |-> ok, keys |-> {}, signal |-> "none"]
    /\ replyHtml' = afterCall(calls[k], replyHtml)
    /\ UNCHANGED <<variant, now, users, selectedUser, category, status, edits, rows, registry, persisted>>

Ids == 1..MaxTime

\* the Supabase variant's calls and the backend's answers
AsyncCalls ==
    \/ /\ Committed < MaxEntries
       /\ Len(calls) < MaxInFlight
       /\ \E parentId \in {0} \cup Ids, entryHtml \in Contents, s \in Statuses \cup {""} :
              AddEntryAsync(parentId, entryHtml, s)
    \/ /\ Len(calls) < MaxInFlight
       /\ \E id \in Ids, fields \in FieldSets(variant) : UpdateEntryAsync(id, fields)
    \/ \E k \in 1..MaxInFlight, ok \in BOOLEAN, t \in 1..MaxTime : InsertDone(k, ok, t)
    \/ \E k \in 1..MaxInFlight, ok \in BOOLEAN : UpdateDone(k, ok)
    \/ \E k \in 1..MaxInFlight, ok \in BOOLEAN : SelectDone(k, ok)

\* the calls of addEntry: any parent id, content and classification
AddEntryCalls ==
    \E parentId \in {0} \cup Ids, entryHtml \in Contents, c \in Classes :
        AddEntry(parentId, entryHtml, c.category, c.description, c.status)

FormInput ==
    \/ \E c \in Categories : SetCategory(c)
    \/ \E d \in Descriptions : SetDescription(d)
    \/ \E s \in Statuses : SetStatus(s)
    \/ \E h \in Contents : SetHtml(h)

Next ==
    \/ Tick
    \/ \E u \in {"", "A"} : SelectUser(u)
    \/ Size(entries) < MaxEntries /\ AddEntryCalls
    \/ \E id \in Ids, fields \in FieldSets(variant) : UpdateEntry(id, fields)
    \/ AsyncCalls

Spec == Init /\ [][Next]_vars

\* addEntry alone, on larger forests
NextAdd ==
    \/ Tick
    \/ \E u \in {"", "A"} : SelectUser(u)
    \/ Size(entries) < MaxAdds /\ AddEntryCalls

SpecAdd == InitLocal /\ [][NextAdd]_vars

\* addEntry with the composition form being filled in
NextForm ==
    \/ Tick
    \/ \E u \in {"", "A"} : SelectUser(u)
    \/ FormInput
    \/ Size(entries) < MaxFormEntries /\ AddEntryCalls

SpecForm == InitLocal /\ [][NextForm]_vars

\* ---------------------------------------------------------- the Save button

\* the composition form is filled in and saved: addEntry() with its defaults, the
\* form's own values
NextCompose ==
    \/ \E u \in {"", "A"} : SelectUser(u)
    \/ FormInput
    \/ /\ Size(entries) < MaxComposed
       /\ AddEntry(0, html, category, description, status)
    \/ /\ Committed < MaxComposed /\ Len(calls) < MaxInFlight
       /\ AddEntryAsync(0, html, "")
    \/ \E k \in 1..MaxInFlight, ok \in BOOLEAN, t \in 1..MaxTime : InsertDone(k, ok, t)
    \/ \E k \in 1..MaxInFlight, ok \in BOOLEAN : SelectDone(k, ok)

SpecCompose == Init /\ [][NextCompose]_vars

\* -------------------------------------------------------- overlapping calls

\* the Supabase application with a user who does not wait for one call to be over
\* before making the next
InitRace == Init /\ variant = "supa"

NextRace ==
    \/ Tick
    \/ \E u \in {"", "A"} : SelectUser(u)
    \/ /\ Committed < MaxEntries /\ Len(calls) < MaxRacing
       /\ \E parentId \in {0} \cup Ids : AddEntryAsync(parentId, <<" ", "a">>, "")
    \/ /\ Len(calls) < MaxRacing
       /\ \E id \in Ids, fields \in FieldSets(variant) : UpdateEntryAsync(id, fields)
    \/ \E k \in 1..MaxRacing, ok \in BOOLEAN, t \in 1..MaxTime : InsertDone(k, ok, t)
    \/ \E k \in 1..MaxRacing, ok \in BOOLEAN : UpdateDone(k, ok)
    \/ \E k \in 1..MaxRacing, ok \in BOOLEAN : SelectDone(k, ok)

SpecRace == InitRace /\ [][NextRace]_vars

\* ------------------------------------------------- answers out of order

\* overlapping calls on a backend that accepts every request, the answers of the
\* reloads reaching the page in any order
NextStale ==
    \/ Tick
    \/ \E u \in {"", "A"} : SelectUser(u)
    \/ /\ Committed < MaxEntries /\ Len(calls) < MaxRacing
       /\ \E parentId \in {0} \cup Ids : AddEntryAsync(parentId, <<" ", "a">>, "")
    \/ /\ Len(calls) < MaxRacing
       /\ \E id \in Ids, fields \in FieldSets(variant) : UpdateEntryAsync(id, fields)
    \/ \E k \in 1..MaxRacing, t \in 1..MaxTime : InsertDone(k, TRUE, t)
    \/ \E k \in 1..MaxRacing : UpdateDone(k, TRUE)
    \/ \E k \in 1..MaxRacing : SelectRead(k)
    \/ \E k \in 1..MaxRacing : SelectDone(k, TRUE)

SpecStale == InitRace /\ [][NextStale]_vars

\* ------------------------------------------------------------ the reply box

\* threads are started with the Save button on a default form, replies are typed
\* into an entry's reply box and saved from there
NextReply ==
    \/ Tick
    \/ \E u \in {"", "A"} : SelectUser(u)
    \/ /\ Size(entries) < MaxReplyEntries
       /\ \E h \in Contents : AddEntry(0, h, category, description, status)
    \/ /\ Committed < MaxReplyEntries /\ Len(calls) < MaxInFlight
       /\ \E h \in Contents : AddEntryAsync(0, h, "")
    \/ \E h \in Contents : SetReplyHtml(h)
    \/ Size(entries) < MaxReplyEntries /\ \E id \in Ids : HandleReplySave(id)
    \/ /\ Committed < MaxReplyEntries /\ Len(calls) < MaxInFlight
       /\ \E id \in Ids : SaveReply(id)
    \/ \E k \in 1..MaxInFlight, ok \in BOOLEAN, t \in 1..MaxTime : InsertDone(k, ok, t)
    \/ \E k \in 1..MaxInFlight, ok \in BOOLEAN : SelectDone(k, ok)

SpecReply == Init /\ [][NextReply]_vars

\* --------------------------------------------- a reply while a draft is open

\* a thread is started, the main form is filled in again, and a reply typed into
\* the thread's reply box is saved
NextDraft ==
    \/ \E u \in {"", "A"} : SelectUser(u)
    \/ FormInput
    \/ /\ Size(entries) < MaxDrafted
       /\ AddEntry(0, html, category, description, status)
    \/ /\ Committed < MaxDrafted /\ Len(calls) < MaxInFlight
       /\ AddEntryAsync(0, html, "")
    \/ \E h \in Contents : SetReplyHtml(h)
    \/ Size(entries) < MaxDrafted /\ \E id \in Ids : HandleReplySave(id)
    \/ /\ Committed < MaxDrafted /\ Len(calls) < MaxInFlight
       /\ \E id \in Ids : SaveReply(id)
    \/ \E k \in 1..MaxInFlight, ok \in BOOLEAN, t \in 1..MaxTime : InsertDone(k, ok, t)
    \/ \E k \in 1..MaxInFlight, ok \in BOOLEAN : SelectDone(k, ok)

SpecDraft == Init /\ [][NextDraft]_vars

\* ------------------------------------------------------- the summary views

\* what getLastDetails starts from: the entry's own time, user and content.
\* getLastInfo (src/App.jsx) returns no content, getLatest (simplest variant) the
\* time alone, the Supabase getLastDetails the author whoever edited
ownDetails(v, entry) ==
    [latestTime |-> IF entry.editedAt # 0 THEN entry.editedAt ELSE entry.createdAt,
     lastBy     |-> CASE v \in {"rich", "mid"} ->
                            IF entry.editedAt # 0 /\ entry.editedBy \notin {NullStr, ""}
                            THEN entry.editedBy ELSE entry.initials
                      [] v = "supa"   -> entry.initials
                      [] v = "simple" -> NoField,
     lastHtml   |-> IF v \in {"rich", "supa"} THEN entry.html ELSE NoField]

\* mutant of getLastDetails: a child's details are kept when they are not earlier
RECURSIVE getLastDetailsLastWins(_, _)
getLastDetailsLastWins(v, entry) ==
    LET held[k \in 0..Len(entry.children)] ==
            IF k = 0 THEN ownDetails(v, entry)
            ELSE LET info == getLastDetailsLastWins(v, entry.children[k]) IN
                 IF info.latestTime >= held[k - 1].latestTime THEN info ELSE held[k - 1]
    IN held[Len(entry.children)]

\* getLastDetails / getLastInfo / getLatest: children.forEach keeps a child's
\* details when they are strictly later than what is held
RECURSIVE getLastDetails(_, _)
getLastDetails(v, entry) ==
    LET held[k \in 0..Len(entry.children)] ==
            IF k = 0 THEN ownDetails(v, entry)
            ELSE LET info == getLastDetails(v, entry.children[k]) IN
                 IF info.latestTime > held[k - 1].latestTime THEN info ELSE held[k - 1]
    IN held[Len(entry.children)]

\* one element of the sorted list: the root and the time it is sorted by
summary(v, entry) ==
    [id |-> entry.id, latestTime |-> getLastDetails(v, entry).latestTime,
     lastBy |-> getLastDetails(v, entry).lastBy]

\* Array.prototype.sort with (a, b) => b.latest - a.latest (stable): x goes behind
\* every element that is not earlier than x
insertSorted(sorted, x) ==
    LET n == Cardinality({i \in 1..Len(sorted) : sorted[i].latestTime >= x.latestTime})
    IN SubSeq(sorted, 1, n) \o <<x>> \o SubSeq(sorted, n + 1, Len(sorted))

\* mutant of sortedEntries: the copy is returned without sorting
unsortedEntries(v, list) == [i \in 1..Len(list) |-> summary(v, list[i])]

\* sortedEntries / summaries: a sorted copy of the roots
sortedEntries(v, list) ==
    LET upTo[k \in 0..Len(list)] ==
            IF k = 0 THEN <<>> ELSE insertSorted(upTo[k - 1], summary(v, list[k]))
    IN upTo[Len(list)]

\* the forests viewed: one or two roots, three entries at most, created in the
\* order they are listed in; author "A", editor "B" where the variant records one
viewEntry(v, id, parentId, stamp, children) ==
    [id          |-> id,
     parentId    |-> parentId,
     initials    |-> "A",
     category    |-> IF v \in {"rich", "supa"} THEN DefaultCategory ELSE NoField,
     description |-> IF v \in {"rich", "supa"} THEN "" ELSE Untitled,
     html        |-> << <<"a">>, <<"b">>, <<"c">> >>[id],
     status      |-> IF v = "simple" THEN NoField ELSE DefaultStatus,
     createdAt   |-> stamp[1],
     editedAt    |-> stamp[2],
     editedBy    |-> IF v \in {"simple", "supa"}
                     THEN (IF v = "supa" THEN NoField ELSE NullStr)
                     ELSE IF stamp[2] # 0 THEN "B" ELSE NullStr,
     children    |-> children]

\* <<createdAt, editedAt>>: an edit is not before the creation where one clock
\* gives both; updated_at is the client's clock, created_at the backend's
ViewStamps(v) ==
    {st \in (1..MaxStamp) \X (0..MaxStamp) : st[2] = 0 \/ v = "supa" \/ st[2] >= st[1]}

ViewForests(v) ==
    LET St == ViewStamps(v) IN
    {<<viewEntry(v, 1, 0, a, <<>>)>> : a \in St}
    \cup {<<viewEntry(v, 1, 0, st[1], <<viewEntry(v, 2, 1, st[2], <<>>)>>)>> :
            st \in {x \in St \X St : x[1][1] <= x[2][1]}}
    \cup {<<viewEntry(v, 1, 0, st[1], <<viewEntry(v, 2, 1, st[2], <<>>),
                                         viewEntry(v, 3, 1, st[3], <<>>)>>)>> :
            st \in {x \in St \X St \X St : x[1][1] <= x[2][1] /\ x[2][1] <= x[3][1]}}
    \cup {<<viewEntry(v, 1, 0, st[1],
                      <<viewEntry(v, 2, 1, st[2], <<viewEntry(v, 3, 2, st[3], <<>>)>>)>>)>> :
            st \in {x \in St \X St \X St : x[1][1] <= x[2][1] /\ x[2][1] <= x[3][1]}}
    \cup {<<viewEntry(v, 1, 0, st[1], <<>>), viewEntry(v, 2, 0, st[2], <<>>)>> :
            st \in {x \in St \X St : x[1][1] <= x[2][1]}}
    \cup {<<viewEntry(v, 1, 0, st[1], <<viewEntry(v, 3, 1, st[3], <<>>)>>),
             viewEntry(v, 2, 0, st[2], <<>>)>> :
            st \in {x \in St \X St \X St : x[1][1] <= x[2][1] /\ x[2][1] <= x[3][1]}}
    \cup {<<viewEntry(v, 1, 0, st[1], <<>>),
             viewEntry(v, 2, 0, st[2], <<viewEntry(v, 3, 2, st[3], <<>>)>>)>> :
            st \in {x \in St \X St \X St : x[1][1] <= x[2][1] /\ x[2][1] <= x[3][1]}}

InitView ==
    /\ variant \in Variants
    /\ now = 1
    /\ entries \in ViewForests(variant)
    /\ users = UserList
    /\ selectedUser = ""
    /\ category = DefaultCategory
    /\ description = ""
    /\ status = DefaultStatus
    /\ html = <<>>
    /\ replyHtml = <<>>
    /\ edits = 0
    /\ rows = <<>>
    /\ calls = <<>>
    /\ shownUsers = users
    /\ userRows = users
    /\ storage = saved(variant, entries, users)
    /\ mount = Mounted
    /\ last = NoCall

\* the collapsed card / summary line of root i is rendered
GetLastDetails(i) ==
    /\ i \in 1..Len(entries)
    /\ last' = [op |-> "getLastDetails", id |-> i,
                result |-> getLastDetails(variant, entries[i])]
    /\ UNCHANGED <<variant, now, entries, users, selectedUser, form, edits, backend, registry, replyHtml, persisted>>

\* the list of threads is rendered
SortedEntries ==
    /\ last' = [op |-> "sortedEntries", id |-> 0,
                result |-> sortedEntries(variant, entries)]
    /\ UNCHANGED <<variant, now, entries, users, selectedUser, form, edits, backend, registry, replyHtml, persisted>>

\* what the collapsed card of a root shows: user, time and content. The Entry
\* component of part_000 takes them from getLastDetails, the EntryComponent of
\* src/src/App.jsx from the root entry itself
collapsedCard(v, entry) ==
    IF v = "rich" THEN getLastDetails(v, entry)
    ELSE [latestTime |-> IF entry.editedAt # 0 THEN entry.editedAt ELSE entry.createdAt,
          lastBy     |-> entry.initials,
          lastHtml   |-> entry.html]

\* the thread of root i is rendered collapsed
CollapsedCard(i) ==
    /\ variant \in {"rich", "supa"}
    /\ i \in 1..Len(entries)
    /\ last' = [op |-> "collapsedCard", id |-> i, result |-> collapsedCard(variant, entries[i])]
    /\ UNCHANGED <<variant, now, entries, users, selectedUser, form, edits, backend, registry, replyHtml, persisted>>

RECURSIVE power(_, _)
power(b, n) == IF n = 0 THEN 1 ELSE b * power(b, n - 1)

\* mutant of toISOString: the digits of the instant without leading zeros
RECURSIVE toDigits(_)
toDigits(t) ==
    IF t < IsoBase THEN <<t>> ELSE Append(toDigits(t \div IsoBase), t % IsoBase)

\* Date.prototype.toISOString: the instant in digits, most significant first,
\* always of the same width (the date in UTC with four year digits)
toISOString(t) ==
    [k \in 1..IsoWidth |-> (t \div power(IsoBase, IsoWidth - k)) % IsoBase]

\* a > b on strings: at the first position where they differ a holds the larger
\* character, or b is a proper prefix of a
stringGreater(a, b) ==
    \/ \E i \in 1..Len(a) :
          /\ i <= Len(b) /\ a[i] > b[i]
          /\ \A j \in 1..(i - 1) : a[j] = b[j]
    \/ /\ Len(a) > Len(b)
       /\ \A j \in 1..Len(b) : a[j] = b[j]

\* getLastInfo of part_000: the stored timestamps (the toISOString strings of the
\* instants) are compared as strings
RECURSIVE getLastInfo(_)
getLastInfo(entry) ==
    LET held[k \in 0..Len(entry.children)] ==
            IF k = 0
            THEN [latest |-> toISOString(ownDetails("rich", entry).latestTime),
                  lastBy |-> ownDetails("rich", entry).lastBy]
            ELSE LET info == getLastInfo(entry.children[k]) IN
                 IF stringGreater(info.latest, held[k - 1].latest) THEN info ELSE held[k - 1]
    IN held[Len(entry.children)]

\* sortedEntries of part_000: [...entries].sort((a, b) => bl.localeCompare(al)) on the
\* getLastInfo strings (stable): x goes behind every element not smaller than x
sortedByLastInfo(list) ==
    LET place(sorted, x) ==
            LET n == Cardinality({i \in 1..Len(sorted) :
                        ~stringGreater(getLastInfo(x).latest, getLastInfo(sorted[i]).latest)})
            IN SubSeq(sorted, 1, n) \o <<x>> \o SubSeq(sorted, n + 1, Len(sorted))
        upTo[k \in 0..Len(list)] ==
            IF k = 0 THEN <<>> ELSE place(upTo[k - 1], list[k])
    IN upTo[Len(list)]

\* the overview list of part_000 is rendered: the roots in sortedEntries order, each
\* with the details getLastDetails gives for it
Overview ==
    /\ variant = "rich"
    /\ last' = [op |-> "overview", id |-> 0,
                result |-> LET sorted == sortedByLastInfo(entries) IN
                           [k \in 1..Len(sorted) |->
                               [id      |-> sorted[k].id,
                                info    |-> getLastInfo(sorted[k]),
                                details |-> getLastDetails(variant, sorted[k])]]]
    /\ UNCHANGED <<variant, now, entries, users, selectedUser, form, edits, backend, registry, replyHtml, persisted>>

NextView ==
    \/ \E i \in 1..2 : GetLastDetails(i)
    \/ SortedEntries
    \/ \E i \in 1..2 : CollapsedCard(i)
    \/ Overview

SpecView == InitView /\ [][NextView]_vars

\* ------------------------------------------------------------------ the mount

\* what was stored by an earlier session: nothing, or up to two entries and a user
SavedItems(v) ==
    {NoItem,
     saved(v, <<>>, UserList),
     saved(v, <<viewEntry(v, 1, 0, <<1, 0>>, <<>>)>>, UserList),
     saved(v, <<viewEntry(v, 1, 0, <<1, 0>>, <<viewEntry(v, 2, 1, <<1, 0>>, <<>>)>>)>>,
           UserList)}

\* the effects of the mount in the order they are declared; a development build in
\* strict mode runs the effects of a mount twice
MountEffects == {<<"load", "persist">>, <<"load", "persist", "load", "persist">>}

\* the first render of a localStorage application: the state is useState's initial
\* one, the item is what an earlier session stored
InitMount ==
    /\ variant \in LocalVariants
    /\ now = 1
    /\ entries = <<>>
    /\ users = <<>>
    /\ selectedUser = ""
    /\ category = DefaultCategory
    /\ description = ""
    /\ status = DefaultStatus
    /\ html = <<>>
    /\ replyHtml = <<>>
    /\ edits = 0
    /\ rows = <<>>
    /\ calls = <<>>
    /\ shownUsers = <<>>
    /\ userRows = <<>>
    /\ storage \in SavedItems(variant)
    /\ mount \in [effects : MountEffects, queued : {<<>>}, before : {storage}]
    /\ last = NoCall

\* the load effect: the item is read and setEntries / setUsers are called with
\* saved.entries || [] and saved.users || []
LoadEffect ==
    /\ mount.effects # <<>> /\ Head(mount.effects) = "load"
    /\ mount' = [mount EXCEPT !.effects = Tail(@),
                              !.queued = Append(@, [entries |-> storage.entries,
                                                    users |-> storage.users])]
    /\ last' = [op |-> "loadEffect", id |-> 0]
    /\ UNCHANGED <<variant, now, entries, users, selectedUser, form, replyHtml, edits, backend,
                   registry, storage>>

\* the persist effect: the entries and users of the render it belongs to are stored
PersistEffect ==
    /\ mount.effects # <<>> /\ Head(mount.effects) = "persist"
    /\ storage' = saved(variant, entries, users)
    /\ mount' = [mount EXCEPT !.effects = Tail(@)]
    /\ last' = [op |-> "persistEffect", id |-> 0]
    /\ UNCHANGED <<variant, now, entries, users, selectedUser, form, replyHtml, edits, backend,
                   registry>>

\* the render after the effects: the queued updates are applied in order (the last
\* one stands), and entries and users being new arrays the persist effect is due
Rerender ==
    /\ mount.effects = <<>> /\ mount.queued # <<>>
    /\ entries' = mount.queued[Len(mount.queued)].entries
    /\ users' = mount.queued[Len(mount.queued)].users
    /\ shownUsers' = users'
    /\ mount' = [mount EXCEPT !.effects = <<"persist">>, !.queued = <<>>]
    /\ last' = [op |-> "rerender", id |-> 0]
    /\ UNCHANGED <<variant, now, selectedUser, form, replyHtml, edits, backend, userRows,
                   storage>>

\* the mount, and the application in use once the mount is over
NextMount ==
    \/ LoadEffect
    \/ PersistEffect
    \/ Rerender
    \/ /\ mount.effects = <<>> /\ mount.queued = <<>>
       /\ \/ \E u \in {"", "A"} : SelectUser(u)
          \/ /\ Size(entries) < MaxAdds
             /\ \E parentId \in {0, 1} : AddEntry(parentId, <<" ", "a">>, category,
                                                   description, status)

SpecMount == InitMount /\ [][NextMount]_vars

\* ------------------------------------------------------------- the clipboard

\* A text is a sequence of characters.  Markup the code writes itself is one element
\* per tag, so that a tag is told from the characters of a pasted text.
Tab == "\t"
LF == "\n"
CR == "\r"
TextChars == {"a", Tab, LF, CR, "&", "<", ">"}

TableStyled == "<table style=\"border-collapse: collapse;\">"
TablePlain == "<table>"
TableEnd == "</table>"
TrOpen == "<tr>"
TrEnd == "</tr>"
TdStyled == "<td style=\"border: 1px solid #ccc; padding: 4px;\">"
TdPlain == "<td>"
TdEnd == "</td>"
POpen == "<p>"
PEnd == "</p>"
Tags == {TableStyled, TablePlain, TableEnd, TrOpen, TrEnd, TdStyled, TdPlain, TdEnd,
         POpen, PEnd}

\* the concatenation of a sequence of sequences: Array.prototype.join('')
RECURSIVE join(_)
join(parts) == IF parts = <<>> THEN <<>> ELSE Head(parts) \o join(Tail(parts))

\* str.replace(/c/g, to), to being a sequence of characters
replaceAll(str, c, to) ==
    join([i \in 1..Len(str) |-> IF str[i] = c THEN to ELSE <<str[i]>>])

\* the three replacements with & last
escapeAmpLast(str) ==
    replaceAll(replaceAll(replaceAll(str, "<", <<"&", "l", "t", ";">>),
                          ">", <<"&", "g", "t", ";">>),
               "&", <<"&", "a", "m", "p", ";">>)

\* escapeHtml: & first, then <, then >
escapeHtml(str) ==
    replaceAll(replaceAll(replaceAll(str, "&", <<"&", "a", "m", "p", ";">>),
                          "<", <<"&", "l", "t", ";">>),
               ">", <<"&", "g", "t", ";">>)

\* str.split(sep) for a one-character separator: the pieces between separators
splitOn(str, sep) ==
    LET cuts == {i \in 1..Len(str) : str[i] = sep}
        from(k) == IF k = 1 THEN 1
                   ELSE 1 + CHOOSE i \in cuts : Cardinality({j \in cuts : j <= i}) = k - 1
        upto(k) == IF k = Cardinality(cuts) + 1 THEN Len(str)
                   ELSE (CHOOSE i \in cuts : Cardinality({j \in cuts : j <= i}) = k) - 1
    IN [k \in 1..(Cardinality(cuts) + 1) |-> SubSeq(str, from(k), upto(k))]

\* text.split(/\r?\n/): split at every line feed; a carriage return right before
\* the line feed belongs to the separator
splitLines(text) ==
    LET pieces == splitOn(text, LF) IN
    [k \in 1..Len(pieces) |->
        IF k < Len(pieces) /\ pieces[k] # <<>> /\ pieces[k][Len(pieces[k])] = CR
        THEN SubSeq(pieces[k], 1, Len(pieces[k]) - 1)
        ELSE pieces[k]]

\* .filter(Boolean) on strings: the empty ones are dropped
filterBoolean(parts) == SelectSeq(parts, LAMBDA p : p # <<>>)

\* tsvToHtml: paragraphs for a text without a tab, else a table with a row for
\* every line and a cell for every column; the table and its cells carry a style in
\* part_000 lines 1-664 and src/src/App.jsx, none in src/App.jsx and part_000 665-928
tsvToHtml(v, text) ==
    LET lines == filterBoolean(splitLines(text))
        styled == v \in {"rich", "supa"}
        cell(col) == <<IF styled THEN TdStyled ELSE TdPlain>> \o escapeHtml(col) \o <<TdEnd>>
        tableRow(row) ==
            LET cols == splitOn(row, Tab) IN
            <<TrOpen>> \o join([j \in 1..Len(cols) |-> cell(cols[j])]) \o <<TrEnd>>
    IN IF \A i \in 1..Len(text) : text[i] # Tab
       THEN join([k \in 1..Len(lines) |-> <<POpen>> \o escapeHtml(lines[k]) \o <<PEnd>>])
       ELSE <<IF styled THEN TableStyled ELSE TablePlain>>
                \o join([k \in 1..Len(lines) |-> tableRow(lines[k])]) \o <<TableEnd>>

\* an HTML payload is a sequence of tags and characters; the tags a pattern of the
\* code matches, with attributes ("w") or without, in lower or upper case
TableTags == {"<table>", "<table w>", "<TABLE>"}
TableEndTags == {"</table>", "</TABLE>"}
ColTags == {"<col w>", "<COL>", "<colgroup>"}
TrTags == {"<tr>", "<tr w>", "<TR>"}
TdTags == {"<td>", "<td w>", "<TD>"}
\* a cell tag with a > inside an attribute value, <td title="w>w">: [^>]* stops at
\* the first >, and the rest of the tag is left behind as text
TdQuotedGt == "<td title=\"w>w\">"
TdQuotedGtMatch == "<td title=\"w>"
TdQuotedGtRest == <<"w", "\"", ">">>
ClosingTags == {"</td>", "</TD>", "</tr>", "</TR>", "</colgroup>", "</tbody>"}
PayloadTags ==
    TableTags \cup TableEndTags \cup ColTags \cup TrTags \cup TdTags \cup ClosingTags
        \cup {TdQuotedGt, "<tbody>"}

\* /<table/i.test(htmlData)
hasTable(htmlData) == \E i \in 1..Len(htmlData) : htmlData[i] \in TableTags

\* /\t/.test(plain)
hasTab(plain) == \E i \in 1..Len(plain) : plain[i] = Tab

\* the ways the page parses markup: DOMParser with a serializer that writes > in an
\* attribute value as &gt;, DOMParser with one that writes it as it is, no DOMParser
\* (the catch branch)
Parsers == {"escaping", "verbatim", "none"}

\* the positions of the first table of the payload: from the first <table to the
\* first </table> after it (the payload's end when there is none)
firstTable(htmlData) ==
    LET opens == {i \in 1..Len(htmlData) : htmlData[i] \in TableTags}
        first == CHOOSE i \in opens : \A j \in opens : i <= j
        ends == {i \in first..Len(htmlData) : htmlData[i] \in TableEndTags}
        stop == IF ends = {} THEN Len(htmlData) ELSE CHOOSE i \in ends : \A j \in ends : i <= j
    IN SubSeq(htmlData, first, stop)

\* a tag as the serializer writes it: the name in lower case
lowerCase(tag) ==
    CASE tag = "<TABLE>" -> "<table>"
      [] tag = "</TABLE>" -> "</table>"
      [] tag = "<COL>" -> "<col>"
      [] tag = "<TR>" -> "<tr>"
      [] tag = "</TR>" -> "</tr>"
      [] tag = "<TD>" -> "<td>"
      [] tag = "</TD>" -> "</td>"
      [] OTHER -> tag

\* table.outerHTML of the parsed table: names in lower case, the columns inside a
\* <colgroup> and the rows inside a <tbody> the parser adds, a > in an attribute
\* value escaped or not with the serializer
outerHTML(table, parser) ==
    LET rowAt == {i \in 1..Len(table) : table[i] \in TrTags}
        element(i) ==
            LET tag == table[i] IN
            IF tag \in {"<col w>", "<COL>"}
            THEN <<"<colgroup>", lowerCase(tag), "</colgroup>">>
            ELSE IF tag = TdQuotedGt
            THEN <<IF parser = "escaping" THEN "<td w>" ELSE tag>>
            ELSE IF i \in rowAt /\ \A j \in rowAt : i <= j
            THEN <<"<tbody>", lowerCase(tag)>>
            ELSE IF tag \in TableEndTags /\ rowAt # {}
            THEN <<"</tbody>", lowerCase(tag)>>
            ELSE <<lowerCase(tag)>>
    IN join([i \in 1..Len(table) |-> element(i)])

\* the four replace calls: <col...> removed, <tr...> bare, the first <table...>
\* and every <td...> styled
restyled(tableHtml) ==
    LET firstOpen(i) == /\ tableHtml[i] \in TableTags
                        /\ \A j \in 1..(i - 1) : tableHtml[j] \notin TableTags
        replaced(i) ==
            LET tag == tableHtml[i] IN
            IF tag \in TrTags THEN <<TrOpen>>
            ELSE IF firstOpen(i) THEN <<TableStyled>>
            ELSE IF tag \in TdTags THEN <<TdStyled>>
            ELSE IF tag = TdQuotedGt THEN <<TdStyled>> \o TdQuotedGtRest
            ELSE <<tag>>
    IN join([i \in 1..Len(tableHtml) |-> replaced(i)])

normalized(tableHtml) ==
    restyled(SelectSeq(tableHtml, LAMBDA p : p \notin ColTags \cup {"<col>"}))

\* the table taken from the payload (the first table element, or else the first
\* <table ... </table> match, or else the payload), then the four replace calls
tableFrom(htmlData, parser) ==
    normalized(IF parser = "none" THEN firstTable(htmlData)
               ELSE outerHTML(firstTable(htmlData), parser))

\* handlePaste: whether preventDefault is called, the branch taken and the markup
\* inserted; src/App.jsx and part_000 665-928 look at the plain text only
handlePaste(v, htmlData, plain, parser) ==
    IF v \in {"rich", "supa"} /\ htmlData # <<>> /\ hasTable(htmlData)
    THEN [prevented |-> TRUE, branch |-> "html", inserted |-> tableFrom(htmlData, parser)]
    ELSE IF plain # <<>> /\ hasTab(plain)
    THEN [prevented |-> TRUE, branch |-> "tsv", inserted |-> tsvToHtml(v, plain)]
    ELSE [prevented |-> FALSE, branch |-> "none", inserted |-> <<>>]

\* the HTML payloads pasted: none, markup without a table, a spreadsheet's table
HtmlPayloads ==
    {<<>>,
     <<"a">>,
     <<"<table w>", "<col w>", "<tr w>", "<td w>", "a", "</td>", "</tr>", "</table>">>,
     <<"a", "<TABLE>", "<TR>", "<TD>", "a", "</TD>", "</TR>", "</TABLE>", "a">>}

\* the plain texts pasted
RECURSIVE TextsOf(_)
TextsOf(n) ==
    IF n = 0 THEN {<<>>}
    ELSE LET shorter == TextsOf(n - 1) IN
         shorter \cup {Append(t, c) : t \in {u \in shorter : Len(u) = n - 1}, c \in TextChars}

PlainPayloads == TextsOf(MaxText)

\* a paste into the empty message box: the markup goes in where the handler takes
\* the paste over
HandlePaste(htmlData, plain, parser) ==
    /\ html = <<>> /\ last = NoCall
    /\ LET r == handlePaste(variant, htmlData, plain, parser) IN
       /\ html' = r.inserted
       /\ last' = [op |-> "handlePaste", htmlData |-> htmlData, plain |-> plain,
                   parser |-> parser, prevented |-> r.prevented, branch |-> r.branch]
    /\ UNCHANGED <<variant, now, entries, users, selectedUser, category, description, status,
                   replyHtml, edits, backend, registry, persisted>>

NextPaste ==
    \E htmlData \in HtmlPayloads, plain \in PlainPayloads :
        HandlePaste(htmlData, plain, "verbatim")

SpecPaste == Init /\ [][NextPaste]_vars

\* the strings escaped: markup characters and the letters of an entity
EscapedChars == {"&", "<", ">", "l", "t", ";"}

RECURSIVE StringsOf(_)
StringsOf(n) ==
    IF n = 0 THEN {<<>>}
    ELSE LET shorter == StringsOf(n - 1) IN
         shorter \cup {Append(t, c) : t \in {u \in shorter : Len(u) = n - 1},
                                      c \in EscapedChars}

InitEscape ==
    /\ variant \in Variants
    /\ now = 1
    /\ entries = <<>>
    /\ users = UserList
    /\ selectedUser = ""
    /\ category = DefaultCategory
    /\ description = ""
    /\ status = DefaultStatus
    /\ html \in StringsOf(MaxEscaped)
    /\ replyHtml = <<>>
    /\ edits = 0
    /\ rows = <<>>
    /\ calls = <<>>
    /\ shownUsers = users
    /\ userRows = users
    /\ storage = saved(variant, entries, users)
    /\ mount = Mounted
    /\ last = NoCall

\* escapeHtml is applied to the string
EscapeHtml ==
    /\ last = NoCall
    /\ last' = [op |-> "escapeHtml", str |-> html, result |-> escapeHtml(html)]
    /\ UNCHANGED <<variant, now, entries, users, selectedUser, form, replyHtml, edits,
                   backend, registry, persisted>>

NextEscape == EscapeHtml

SpecEscape == InitEscape /\ [][NextEscape]_vars

\* the tables pasted: a table tag, a column or none, a row with one cell holding
\* "a"; alone, inside other markup, or followed by a second table
Cell(tableTag, colTag, trTag, tdTag) ==
    <<tableTag>> \o colTag \o <<trTag, tdTag, "a", "</td>", "</tr>", "</table>">>

TablePayloads ==
    LET tables == {Cell(tableTag, colTag, trTag, tdTag) :
                      tableTag \in TableTags,
                      colTag \in {<<>>, <<"<col w>">>, <<"<COL>">>},
                      trTag \in TrTags,
                      tdTag \in TdTags \cup {TdQuotedGt}}
    IN tables
         \cup {<<"b">> \o t \o <<"b">> : t \in tables}
         \cup {t \o <<"<table>", "<tr>", "<td>", "b", "</td>", "</tr>", "</table>">> :
                    t \in tables}

NextTable ==
    \E htmlData \in TablePayloads, plain \in {<<>>, <<"a", Tab, "a">>}, parser \in Parsers :
        HandlePaste(htmlData, plain, parser)

SpecTable == Init /\ [][NextTable]_vars

\* ------------------------------------------------------------- registration

\* the Initials and name inputs: blank, a code, the code with a blank behind it
LoginInitials == {<<" ">>, <<"A">>, <<"A", " ">>, <<"B">>}
LoginNames == {<<" ">>, <<"x">>, <<"y">>}

\* a typed code as the identity it stands for (the codes are one character long)
code(typed) == IF typed = <<>> THEN "" ELSE typed[1]

hasUser(list, initials) == \E i \in 1..Len(list) : list[i].initials = initials

\* addUser(name, initials): users is the list the closure holds, setUsers appends
\* to the list as it is when the update is applied
AddUser(name, initials) ==
    /\ variant \in LocalVariants
    /\ Len(users) < MaxUsers
    /\ last' = [op |-> "addUser", id |-> initials, name |-> name,
                stored |-> (initials # "" /\ ~hasUser(shownUsers, initials))]
    /\ IF initials = "" \/ hasUser(shownUsers, initials)
       THEN UNCHANGED <<users, selectedUser>>
       ELSE /\ users' = Append(users, [name |-> name, initials |-> initials])
            /\ selectedUser' = initials
    /\ UNCHANGED <<variant, now, entries, form, edits, backend, registry, replyHtml, persisted>>

\* the component renders again: the handlers now hold the current users, and the
\* persist effect stores them
Render ==
    /\ shownUsers # users
    /\ shownUsers' = users
    /\ storage' = saved(variant, entries, users)
    /\ last' = NoCall
    /\ UNCHANGED <<variant, now, entries, users, selectedUser, form, edits, backend, userRows, replyHtml, mount>>

\* handleLogin up to its await: a known user is logged in at once, an unknown one
\* is first inserted into the users table, which needs a name
HandleLogin(loginInitials, loginName) ==
    /\ variant = "supa"
    /\ Len(calls) < MaxLogins
    /\ Len(users) + Len(calls) < MaxUsers
    /\ LET initials == code(Trim(loginInitials))
           name == Trim(loginName)
           known == hasUser(shownUsers, initials)
       IN /\ last' = [op |-> "handleLogin", id |-> initials, name |-> name,
                      stored |-> FALSE]
          /\ selectedUser' = IF initials # "" /\ known THEN initials ELSE selectedUser
          /\ calls' = IF initials = "" \/ known \/ name = <<>> THEN calls
                      ELSE Append(calls, [kind |-> "login", phase |-> "write", id |-> 0,
                                          via |-> "handleLogin",
                                          req |-> [name |-> name, initials |-> initials]])
    /\ UNCHANGED <<variant, now, entries, users, form, edits, rows, registry, replyHtml, persisted>>

\* the insert into users is answered: an error is logged and handleLogin ends, or
\* the row is stored, appended to users and logged in
LoginDone(k, ok) ==
    /\ k \in 1..Len(calls)
    /\ calls[k].kind = "login"
    /\ IF ok
       THEN /\ userRows' = Append(userRows, calls[k].req)
            /\ users' = Append(users, calls[k].req)
            /\ selectedUser' = calls[k].req.initials
       ELSE UNCHANGED <<userRows, users, selectedUser>>
    /\ calls' = removeAt(calls, k)
    /\ last' = [op |-> "loginDone", id |-> calls[k].req.initials,
                name |-> calls[k].req.name, stored |-> ok]
    /\ UNCHANGED <<variant, now, entries, form, edits, rows, shownUsers, replyHtml, persisted>>

InitUsers ==
    /\ variant \in Variants
    /\ now = 1
    /\ entries = <<>>
    /\ users = <<>>
    /\ selectedUser = ""
    /\ category = DefaultCategory
    /\ description = ""
    /\ status = DefaultStatus
    /\ html = <<>>
    /\ replyHtml = <<>>
    /\ edits = 0
    /\ rows = <<>>
    /\ calls = <<>>
    /\ shownUsers = <<>>
    /\ userRows = <<>>
    /\ storage = saved(variant, entries, users)
    /\ mount = Mounted
    /\ last = NoCall

NextUsers ==
    \/ \E name \in LoginNames, initials \in {"", "A", "B"} : AddUser(name, initials)
    \/ Render
    \/ \E loginInitials \in LoginInitials, loginName \in LoginNames :
           HandleLogin(loginInitials, loginName)
    \/ \E k \in 1..MaxLogins, ok \in BOOLEAN : LoginDone(k, ok)

SpecUsers == InitUsers /\ [][NextUsers]_vars

\* ------------------------------------------------------------------ claims

\* every child names its container in parentId, every root has parentId null
RECURSIVE LinkedUnder(_, _)
LinkedUnder(list, pid) ==
    \A i \in 1..Len(list) :
        list[i].parentId = pid /\ LinkedUnder(list[i].children, list[i].id)

\* the entries a stored addEntry(parentId, ...) has just placed: the last root, or
\* the last child of every entry named parentId
NewEntries(list, parentId) ==
    IF parentId = 0 THEN {list[Len(list)]}
    ELSE {n.children[Len(n.children)] :
            n \in {m \in NodeSet(list) : m.id = parentId /\ m.children # <<>>}}

\* C1 (tree integrity): after every addEntry call each entry's parentId is null at
\* the roots and the id of its container elsewhere, and the call has placed its
\* entry at one position at most, so that no entry is at two places of the forest.
C1_TreeIntegrity ==
    [][last'.op = "addEntry" =>
        /\ LinkedUnder(entries', 0)
        /\ Size(entries') <= Size(entries) + 1]_vars

\* C2 (unique ids): no two entries of the forest share an id, also when two
\* addEntry calls read the same Date.now().
C2_IdsUnique ==
    \A i, j \in 1..Size(entries) :
        i # j => Nodes(entries)[i].id # Nodes(entries)[j].id

\* C3 (inheritance): a reply just stored under an existing parent P has P's
\* category, description and status, whatever values addEntry was given.
C3_Inheritance ==
    (last.op = "addEntry" /\ last.stored /\ last.found) =>
        \A p \in NodeSet(entries) :
            (p.id = last.id /\ p.children # <<>>) =>
                LET c == p.children[Len(p.children)] IN
                /\ c.category = p.category
                /\ c.description = p.description
                /\ c.status = p.status

\* C4 (ParentNotFound): a reply whose parentId matches no entry changes neither
\* the forest nor any other state, the caller's pending input included.
C4_ParentNotFound ==
    [][(last'.op = "addEntry" /\ last'.id # 0 /\ ~last'.found) =>
        UNCHANGED <<entries, form, selectedUser>>]_vars

\* C5 (empty content): addEntry with content that is empty after trim() leaves the
\* forest as it was, for root creations and for replies; in the Supabase variant it
\* also sends nothing to the backend.
C5_EmptyContentRejected ==
    [][(last'.op \in {"addEntry", "addEntryAsync"} /\ last'.blank) =>
        UNCHANGED <<entries, rows, calls>>]_vars

\* C5 witness: a caller with an identity has called addEntry with blank content, as
\* a reply to an entry of a non-empty forest.
C5_Witness ==
    /\ last.op \in {"addEntry", "addEntryAsync"}
    /\ last.blank /\ last.found /\ selectedUser # ""

\* C6 (identity resolution): the author of a created entry is the caller identity
\* when that is non-empty; with an empty caller identity a reply to an existing
\* parent is created with the parent's author, and any other creation is rejected
\* with the forest unchanged; no entry has an empty author.
C6_IdentityResolution ==
    [][(last'.op = "addEntry" /\ ~last'.blank) =>
        /\ IF selectedUser # ""
           THEN (last'.id = 0 \/ last'.found) =>
                    /\ last'.stored
                    /\ \A e \in NewEntries(entries', last'.id) : e.initials = selectedUser
           ELSE IF last'.found
           THEN /\ last'.stored
                /\ \A e \in NewEntries(entries', last'.id) :
                       e.initials = findById(entries, last'.id)[1].initials
           ELSE UNCHANGED entries
        /\ \A n \in NodeSet(entries') : n.initials # ""]_vars

\* the stored entries, flat: the forest in pre-order, or the backend's rows
Store == IF variant = "supa" THEN rows ELSE Nodes(entries)

\* the step at which an update reaches the store
Updating(l) == l.op \in {"updateEntry", "updateDone"} /\ l.stored

\* the update the variant's edit-save handler issues: every key of its edit form
EditSave(l) == Updating(l) /\ l.found /\ l.keys = FormKeys(variant)

C8_OnlySuppliedFields ==
    [][Updating(last') =>
        /\ Len(Store') = Len(Store)
        /\ \A i \in 1..Len(Store) :
            LET a == Store[i]
                b == Store'[i]
            IN /\ ("html" \notin last'.keys => b.html = a.html)
               /\ ("status" \notin last'.keys => b.status = a.status)]_vars

\* C8 witness: updateEntry was given new content alone, for an existing entry whose
\* status is not the default one.
C8_Witness ==
    /\ Updating(last) /\ last.found /\ last.keys = {"html"}
    /\ \E i \in 1..Len(Store) :
        /\ Store[i].id = last.id /\ Store[i].editedAt # 0
        /\ Store[i].status = "Complete" /\ Store[i].html = <<"b">>

\* C9 (edit stamp): after a successful updateEntry the entry holds editedAt = the
\* current time and editedBy = the identity of the caller.
C9_EditStamp ==
    (last.op = "updateEntry" /\ last.found) =>
        \A n \in NodeSet(entries) :
            n.id = last.id => (n.editedAt = now /\ n.editedBy = selectedUser)

Thread(entry) == NodeSet(<<entry>>)

\* the time an entry was last touched: editedAt if set, else createdAt
Touched(n) == IF n.editedAt # 0 THEN n.editedAt ELSE n.createdAt

C12_SortedByRecency ==
    [][last'.op = "sortedEntries" =>
        LET r == last'.result IN
        /\ UNCHANGED entries
        /\ Len(r) = Len(entries)
        /\ \A i \in 1..Len(entries) : \E k \in 1..Len(r) : r[k].id = entries[i].id
        /\ \A k \in 1..Len(r) : \E i \in 1..Len(entries) :
               /\ r[k].id = entries[i].id
               /\ r[k].latestTime = getLastDetails(variant, entries[i]).latestTime
        /\ \A k \in 1..(Len(r) - 1) : r[k].latestTime >= r[k + 1].latestTime]_vars

\* C12 witness: two roots were sorted and the second, later one is listed first.
C12_Witness ==
    /\ last.op = "sortedEntries" /\ Len(entries) = 2
    /\ last.result[1].id = entries[2].id
    /\ last.result[1].latestTime > last.result[2].latestTime

\* C13 (idempotent registration): whatever addUser / handleLogin calls were made,
\* also before an earlier one has taken effect, users (and the backend's users
\* table) holds one record at most for an identity code.
C13_OneRecordPerCode ==
    /\ \A i, j \in 1..Len(users) : users[i].initials = users[j].initials => i = j
    /\ \A i, j \in 1..Len(userRows) :
           userRows[i].initials = userRows[j].initials => i = j

\* C14 (orphan tolerance): after a reload has rebuilt the forest from the rows,
\* every row is an entry of the forest, and a row whose parent_id names no row is
\* one of the roots.
C14_OrphansAreRoots ==
    (last.op = "selectDone" /\ last.stored) =>
        \A i \in 1..Len(rows) :
            /\ \E n \in NodeSet(entries) : n.id = rows[i].id
            /\ (\A j \in 1..Len(rows) : rows[j].id # rows[i].parentId) =>
                   \E k \in 1..Len(entries) : entries[k].id = rows[i].id

\* a create or update that did not succeed: addEntry returned at its validation,
\* or the backend answered the write with an error
Failed(l) ==
    \/ l.op = "addEntry" /\ ~l.stored
    \/ l.op \in {"insertDone", "updateDone"} /\ ~l.stored

\* C15 (pending input survives failure): when a create or update did not succeed,
\* what was typed into the message box and into the reply box is still there
\* (white space at its ends aside).
C15_PendingInputKept ==
    [][Failed(last') =>
        /\ Trim(html') = Trim(html)
        /\ Trim(replyHtml') = Trim(replyHtml)]_vars

\* C16 (a failed write leaves the forest alone): in the Supabase variant the forest
\* changes only in the reload that follows a write the backend accepted, and the
\* step in which a write is answered with an error leaves the forest as it was.
C16_ForestAfterAcceptedWrite ==
    [][variant = "supa" =>
        /\ entries' # entries =>
               /\ last'.op = "selectDone" /\ last'.stored
               /\ \E k \in 1..Len(calls) : calls[k].phase = "select"
        /\ (last'.op \in {"insertDone", "updateDone"} /\ ~last'.stored) =>
               UNCHANGED entries]_vars

\* C16 witness: the insert of a reply was answered with an error while the forest
\* held the thread replied to.
C16_Witness ==
    /\ variant = "supa" /\ last.op = "insertDone" /\ ~last.stored
    /\ last.id # 0 /\ findById(entries, last.id) # <<>>

\* C17 (single writer): at no time are two mutations (addEntry or updateEntry
\* calls) under way, one awaiting the backend while another has begun.
C17_SingleWriter ==
    Cardinality({k \in 1..Len(calls) : calls[k].kind \in {"insert", "update"}}) <= 1

\* C18 (form reset): when a root creation has succeeded (addEntry stored the root;
\* in the Supabase variant, addEntry is over after an accepted insert) the form holds
\* the default category, an empty description, the default status and no content.
C18_FormReset ==
    [][((last'.op = "addEntry" /\ last'.id = 0 /\ last'.stored)
            \/ (last'.op = "selectDone" /\ last'.id = 0)) =>
        /\ category' = DefaultCategory
        /\ description' = ""
        /\ status' = DefaultStatus
        /\ html' = <<>>]_vars

\* C19 (paste ownership): the default paste is suppressed exactly when the HTML
\* payload holds a <table tag (in any case) or the plain text holds a tab; when
\* both do, the HTML branch is taken; when neither does, nothing is inserted.
C19_PasteOwnership ==
    last.op = "handlePaste" =>
        LET table == \E i \in 1..Len(last.htmlData) : last.htmlData[i] \in TableTags
            tab == \E i \in 1..Len(last.plain) : last.plain[i] = Tab
        IN /\ last.prevented = (table \/ tab)
           /\ (table /\ tab) => last.branch = "html"
           /\ (~table /\ ~tab) => (last.branch = "none" /\ html = <<>>)

\* the elements of seq at the positions in S, in order
AtPositions(seq, S) ==
    [k \in 1..Cardinality(S) |->
        seq[CHOOSE i \in S : Cardinality({j \in S : j <= i}) = k]]

\* the positions of text outside the line separators (\n, and \r right before \n)
InLine(text) ==
    {i \in 1..Len(text) :
        /\ text[i] # LF
        /\ ~(text[i] = CR /\ i < Len(text) /\ text[i + 1] = LF)}

\* the number of non-empty lines of text
LineCount(text) ==
    Cardinality({i \in InLine(text) : (i - 1) \notin InLine(text)})

Count(seq, x) == Cardinality({i \in 1..Len(seq) : seq[i] = x})

\* C20 (TSV conversion): a plain text with a tab becomes one table carrying the
\* collapsed-border style, with one <tr> for every non-empty line and in it one
\* styled <td> for every tab-separated field, in order, holding the escaped field.
C20_TsvConversion ==
    (last.op = "handlePaste" /\ last.branch = "tsv") =>
        LET text == last.plain
            fields == AtPositions(text, {i \in InLine(text) : text[i] # Tab})
        IN /\ html[1] = TableStyled /\ html[Len(html)] = TableEnd
           /\ Count(html, TableStyled) = 1 /\ Count(html, TablePlain) = 0
           /\ Count(html, TrOpen) = LineCount(text)
           /\ Count(html, TdStyled) = LineCount(text) + Count(text, Tab)
           /\ Count(html, TdPlain) = 0
           /\ \A i \in 1..(Len(html) - 1) :
                /\ html[i] \in {TableStyled, TrEnd} => html[i + 1] \in {TrOpen, TableEnd}
                /\ html[i] = TrOpen => html[i + 1] = TdStyled
                /\ html[i] = TdEnd => html[i + 1] \in {TdStyled, TrEnd}
           /\ SelectSeq(html, LAMBDA x : x \notin Tags) = escapeHtml(fields)

\* the characters of a piece of markup outside its tags
TextOf(markup) == SelectSeq(markup, LAMBDA x : x \notin PayloadTags \cup Tags)

\* C21 (HTML table normalization): the fragment inserted for a pasted table is the
\* first table only, has no <col ...> element, only bare <tr> tags, one <table ...>
\* tag carrying exactly the collapsed-border style and only <td ...> tags carrying
\* exactly the border/padding style, and keeps the cells' text.
C21_TableNormalized ==
    (last.op = "handlePaste" /\ last.branch = "html") =>
        /\ html[1] = TableStyled /\ html[Len(html)] = TableEnd
        /\ \A i \in 1..Len(html) :
            /\ html[i] \in TableEndTags => i = Len(html)
            /\ html[i] \notin (TableTags \cup ColTags \cup {"<col>"})
            /\ html[i] \notin (TrTags \ {TrOpen})
            /\ html[i] \notin (TdTags \cup {TdQuotedGt, TdQuotedGtMatch})
            /\ html[i] = TableStyled => i = 1
        /\ Count(html, TrOpen) = 1 /\ Count(html, TdStyled) = 1
        /\ TextOf(html) = <<"a">>

AmpEntity == <<"&", "a", "m", "p", ";">>
LtEntity == <<"&", "l", "t", ";">>
GtEntity == <<"&", "g", "t", ";">>

\* seq holds the entity from position i on
StartsAt(seq, i, entity) ==
    /\ i + Len(entity) - 1 <= Len(seq)
    /\ SubSeq(seq, i, i + Len(entity) - 1) = entity

Starts(seq, entity) == {i \in 1..Len(seq) : StartsAt(seq, i, entity)}

\* the three entities replaced back, reading from the left
RECURSIVE unescaped(_)
unescaped(seq) ==
    IF seq = <<>> THEN <<>>
    ELSE IF StartsAt(seq, 1, AmpEntity) THEN <<"&">> \o unescaped(SubSeq(seq, 6, Len(seq)))
    ELSE IF StartsAt(seq, 1, LtEntity) THEN <<"<">> \o unescaped(SubSeq(seq, 5, Len(seq)))
    ELSE IF StartsAt(seq, 1, GtEntity) THEN <<">">> \o unescaped(SubSeq(seq, 5, Len(seq)))
    ELSE <<Head(seq)>> \o unescaped(Tail(seq))

\* C22 (escapeHtml): the output holds no raw < or >, every & of the output starts
\* &amp; &lt; or &gt;, every < of the input gives one &lt; (and no &amp; that the
\* input's & do not account for), and replacing the entities back gives the input.
C22_EscapeHtml ==
    last.op = "escapeHtml" =>
        LET out == last.result IN
        /\ Count(out, "<") = 0 /\ Count(out, ">") = 0
        /\ \A i \in 1..Len(out) :
              out[i] = "&" => \E entity \in {AmpEntity, LtEntity, GtEntity} :
                                  StartsAt(out, i, entity)
        /\ Cardinality(Starts(out, LtEntity)) = Count(last.str, "<")
        /\ Cardinality(Starts(out, GtEntity)) = Count(last.str, ">")
        /\ Cardinality(Starts(out, AmpEntity)) = Count(last.str, "&")
        /\ unescaped(out) = last.str

\* an input with the text of an entity in it ("&lt;") and a < has been escaped
C22_Witness ==
    /\ last.op = "escapeHtml"
    /\ Starts(last.str, LtEntity) # {}
    /\ Count(last.str, "<") > 0
    /\ Starts(last.result, AmpEntity) # {}

\* the entries of the thread of root i in pre-order, and the first of them that
\* holds the thread's latest time
PreOrder(i) == Nodes(<<entries[i]>>)

FirstLatest(i) ==
    LET pre == PreOrder(i)
        k == CHOOSE j \in 1..Len(pre) :
                /\ \A m \in 1..Len(pre) : Touched(pre[m]) <= Touched(pre[j])
                /\ \A m \in 1..(j - 1) : Touched(pre[m]) < Touched(pre[j])
    IN pre[k]

\* C23 (tie-break): among the entries of a thread that hold its latest time,
\* getLastDetails returns the details of the one met first in pre-order: a parent
\* before its child, an earlier sibling before a later one.
C23_TieBreak ==
    last.op = "getLastDetails" =>
        last.result = ownDetails(variant, FirstLatest(last.id))

\* C23 witness: the root holds the latest time together with a reply, or a reply
\* together with a later reply, and the content returned is the earlier one's.
C23_Witness ==
    /\ last.op = "getLastDetails" /\ last.result.lastHtml # NoField
    /\ LET pre == PreOrder(last.id) IN
       \E j \in 1..Len(pre), m \in 1..Len(pre) :
           /\ j < m /\ Touched(pre[j]) = Touched(pre[m])
           /\ Touched(pre[j]) = last.result.latestTime
           /\ last.result.lastHtml = pre[j].html
           /\ pre[m].parentId \in {pre[j].id, pre[j].parentId}

\* C24 (edit after creation): every entry of the forest, and every row of the
\* backend, that holds an edit time holds one that is not before its creation time.
C24_EditNotBeforeCreation ==
    /\ \A n \in NodeSet(entries) : n.editedAt # 0 => n.editedAt >= n.createdAt
    /\ \A i \in 1..Len(rows) : rows[i].editedAt # 0 => rows[i].editedAt >= rows[i].createdAt

\* an entry without its replies, and the nesting of a forest without its entries
Alone(n) == [n EXCEPT !.children = <<>>]

RECURSIVE Nesting(_)
Nesting(list) == [i \in 1..Len(list) |-> Nesting(list[i].children)]

\* the positions (pre-order) at which two forests of one nesting differ
Changed(before, after) ==
    {j \in 1..Size(before) : Alone(Nodes(after)[j]) # Alone(Nodes(before)[j])}

\* C25 (update preserves structure): updateEntry(id, ...) leaves the nesting and the
\* order of the forest as they were, and changes the fields of one entry at most,
\* an entry with the id given.
C25_UpdateKeepsStructure ==
    [][last'.op = "updateEntry" =>
        /\ Nesting(entries') = Nesting(entries)
        /\ Cardinality(Changed(entries, entries')) <= 1
        /\ \A j \in Changed(entries, entries') : Nodes(entries)[j].id = last'.id]_vars

\* C26 (collapsed preview): the collapsed card of a root shows the user, the time
\* and the content that getLastDetails returns for the root's thread.
C26_CardShowsLatest ==
    last.op = "collapsedCard" =>
        last.result = getLastDetails(variant, entries[last.id])

\* C27 (a reply leaves the main form alone): no step of an addEntry call given a
\* parentId changes the content, category, description or status of the main form.
C27_ReplyKeepsForm ==
    [][(last'.op \in {"addEntry", "addEntryAsync", "insertDone", "selectDone"} /\ last'.id # 0)
          => UNCHANGED form]_vars

\* C28 (the forest after the calls are over): when no addEntry / updateEntry call
\* is under way and none has met an error, the forest is the one a reload of the
\* backend's rows gives, whatever the order the reloads' answers came in.
C28_ForestIsBackend ==
    calls = <<>> => entries = buildThreadHierarchy(enriched(rows, users))

\* the ids of the entries and the codes of the users an item holds
EntriesIn(item) == {n.id : n \in NodeSet(item.entries)}
UsersIn(item) == {item.users[i].initials : i \in 1..Len(item.users)}

\* C29 (startup keeps the saved data): from the mount on, the item stored under the
\* storage key holds every entry and every user it held before the mount.
C29_StartupKeepsSaved ==
    /\ EntriesIn(mount.before) \subseteq EntriesIn(storage)
    /\ UsersIn(mount.before) \subseteq UsersIn(storage)

\* C30 (sort key and displayed recency agree): for every root of the overview,
\* getLastInfo gives the timestamp and the author getLastDetails gives, and the
\* times shown down the list never increase.
C30_SortKeyAgrees ==
    last.op = "overview" =>
        LET r == last.result IN
        /\ \A k \in 1..Len(r) :
              /\ r[k].info.latest = toISOString(r[k].details.latestTime)
              /\ r[k].info.lastBy = r[k].details.lastBy
        /\ \A k \in 1..(Len(r) - 1) :
              r[k].details.latestTime >= r[k + 1].details.latestTime

\* C30 witness: two threads are listed, the later one first, with times that differ
\* in their leading digit, the later time being that of a reply.
C30_Witness ==
    /\ last.op = "overview" /\ Len(last.result) = 2
    /\ last.result[1].id = entries[2].id
    /\ last.result[1].details.latestTime >= IsoBase
    /\ last.result[2].details.latestTime < IsoBase
    /\ last.result[1].details.lastHtml # entries[2].html

====
